---- MODULE Spec2Model ----
(***************************************************************************)
(* A model of data2pptx/slideshow.py: the Slideshow object, its Execute    *)
(* loop (layout lookup, slide creation, title, placeholder dispatch) and   *)
(* the table rendering routine _put_dataframe.                             *)
(*                                                                         *)
(* Texts are sequences of lines (the pieces between "\n"), so that the     *)
(* paragraphs a text assignment produces are computed, not assumed.        *)
(* An exception message is a sequence of tokens (literal pieces, names).   *)
(***************************************************************************)
EXTENDS Integers, Sequences, FiniteSets, TLC

VARIABLES
    pc,               \* position of the Execute call: idle / entry / keys / done / raised
    slides,           \* self.slideshow.slides: the slides of the presentation
    entries,          \* the entries of the 'slides' argument the loop has taken so far
    used,             \* the keys of the current entry's 'placeholders' iterated so far
    last,             \* the latest step of the inner loop: key, class, routine invoked
    exc,              \* the exception that ended the call (NoExc when none)
    string2colormap,  \* self.string2colormap
    dataframe,        \* the DataFrame handed to _put_dataframe
    table,            \* the table _put_dataframe inserted into the placeholder
    tpc               \* position of the _put_dataframe call: ready / returned / raised

vars == <<pc, slides, entries, used, last, exc, string2colormap, dataframe, table, tpc>>

----------------------------------------------------------------------------
(* Bounds of the model. *)

MaxSlides == 2      \* entries in one 'slides' argument
MaxKeys == 2        \* keys in one 'placeholders' dictionary
MaxRows == 2        \* rows of a DataFrame
MaxCols == 3        \* columns of a DataFrame
MaxLevels == 2      \* index levels of a DataFrame

----------------------------------------------------------------------------
(* Values a DataFrame holds, and their string form. *)

StrVal(lines) == [kind |-> "str", lines |-> lines, n |-> 0, items |-> <<>>]
IntVal(n) == [kind |-> "int", lines |-> <<>>, n |-> n, items |-> <<>>]
TupleVal(items) == [kind |-> "tuple", lines |-> <<>>, n |-> 0, items |-> items]

\* A text on one line, as repr() shows it: each "\n" escaped.
RECURSIVE EscapeLines(_)
EscapeLines(lines) ==
    IF Len(lines) = 1 THEN lines[1]
    ELSE lines[1] \o "\\n" \o EscapeLines(Tail(lines))

\* repr() of an index value inside a tuple: a str is quoted.
Repr(v) ==
    IF v.kind = "int" THEN ToString(v.n) ELSE "'" \o EscapeLines(v.lines) \o "'"

RECURSIVE ReprItems(_)
ReprItems(items) ==
    IF Len(items) = 0 THEN ""
    ELSE IF Len(items) = 1 THEN Repr(items[1])
    ELSE Repr(items[1]) \o ", " \o ReprItems(Tail(items))

\* str(col), as the lines of the resulting text.
Str(v) ==
    CASE v.kind = "str" -> v.lines
      [] v.kind = "int" -> <<ToString(v.n)>>
      [] v.kind = "tuple" -> <<"(" \o ReprItems(v.items) \o ")">>

----------------------------------------------------------------------------
(* Tables: cells of paragraphs of runs. *)

\* A run's colour and size and a column's width are <<>> until assigned, <<x>> after.
Unset == <<>>
FontSizePt == 12
WideColumnPt == 150
NarrowColumnPt == 50

\* A cell of a new table: one paragraph without runs, never assigned.
EmptyCell == [written |-> FALSE, paragraphs |-> << <<>> >>]

\* cell.text = text: one paragraph per line, one run per non-empty line.
SetText(lines) ==
    [written |-> TRUE,
     paragraphs |-> [p \in 1..Len(lines) |->
        IF lines[p] = "" THEN <<>>
        ELSE <<[text |-> lines[p], color |-> Unset, size |-> Unset]>>]]

\* placeholder.insert_table(rows, cols)
insert_table(rows, cols) ==
    [nrows |-> rows, ncols |-> cols,
     widths |-> [c \in 0..(cols - 1) |-> Unset],
     cells |-> [r \in 0..(rows - 1) |-> [c \in 0..(cols - 1) |-> EmptyCell]]]

\* The column widths in the order the code assigns them.
WidthAssignments ==
    << [col |-> 1, width |-> NarrowColumnPt],
       [col |-> 0, width |-> WideColumnPt],
       [col |-> 2, width |-> NarrowColumnPt],
       [col |-> 3, width |-> NarrowColumnPt] >>

\* table.columns[idx].width = ... for each assignment in turn; table.columns[idx]
\* raises IndexError when the table has no such column.
RECURSIVE SetWidths(_, _)
SetWidths(t, todo) ==
    IF Len(todo) = 0 THEN [raised |-> FALSE, table |-> t]
    ELSE IF todo[1].col >= t.ncols THEN [raised |-> TRUE, table |-> t]
    ELSE SetWidths([t EXCEPT !.widths[todo[1].col] = <<todo[1].width>>], Tail(todo))

\* Index names: <<>> is None, <<s>> is the name s.
\* "if Indices don't have names, we replace them by blanks"
BlankNames(names) ==
    [i \in 1..Len(names) |-> IF names[i] = <<>> THEN <<" ">> ELSE names[i]]

\* The tuple itertuples() yields for row i: the index (one value, or one tuple of
\* the levels' values for a MultiIndex) followed by the columns' values.
RowTuple(df, i) ==
    LET idx == df.rows[i].index
    IN  (IF Len(df.index_names) = 1 THEN <<idx[1]>> ELSE <<TupleVal(idx)>>)
        \o df.rows[i].values

\* col in self.string2colormap.keys()
IsKey(cmap, v) == v.kind = "str" /\ v.lines \in DOMAIN cmap

\* for run in table.cell(..).text_frame.paragraphs[0].runs: run.font.color.rgb = c
ColorFirstParagraph(cell, c) ==
    [cell EXCEPT !.paragraphs[1] =
        [r \in 1..Len(cell.paragraphs[1]) |-> [cell.paragraphs[1][r] EXCEPT !.color = <<c>>]]]

\* The header: the index names, then the column names, from column 0 on.
RECURSIVE WriteHeader(_, _, _)
WriteHeader(t, names, colId) ==
    IF Len(names) = 0 THEN t
    ELSE WriteHeader([t EXCEPT !.cells[0][colId] = SetText(names[1])],
                     Tail(names), colId + 1)

\* for col in row: the cell's text, and its colour when the value is a key.
RECURSIVE WriteRow(_, _, _, _, _)
WriteRow(t, cmap, tuple, rowId, colId) ==
    IF Len(tuple) = 0 THEN t
    ELSE LET col == tuple[1]
             cell == SetText(Str(col))
             done == IF IsKey(cmap, col)
                     THEN ColorFirstParagraph(cell, cmap[col.lines])
                     ELSE cell
         IN  WriteRow([t EXCEPT !.cells[rowId][colId] = done],
                      cmap, Tail(tuple), rowId, colId + 1)

\* for row in dataframe.itertuples(): the header before the first row, then the row.
RECURSIVE WriteRows(_, _, _, _, _)
WriteRows(t, df, cmap, i, rowId) ==
    IF i > Len(df.rows) THEN t
    ELSE LET headed == IF rowId = 0
                       THEN WriteHeader(t, df.index_names \o
                                    [j \in 1..Len(df.columns) |-> <<df.columns[j]>>], 0)
                       ELSE t
             at == IF rowId = 0 THEN 1 ELSE rowId
         IN  WriteRows(WriteRow(headed, cmap, RowTuple(df, i), at, 0),
                       df, cmap, i + 1, at + 1)

\* for cell in _iter_cells(table): every run of every paragraph gets Pt(12).
SetFontSizes(t) ==
    [t EXCEPT !.cells =
        [r \in 0..(t.nrows - 1) |-> [c \in 0..(t.ncols - 1) |->
            [t.cells[r][c] EXCEPT !.paragraphs =
                [p \in 1..Len(t.cells[r][c].paragraphs) |->
                    [q \in 1..Len(t.cells[r][c].paragraphs[p]) |->
                        [t.cells[r][c].paragraphs[p][q] EXCEPT !.size = <<FontSizePt>>]]]]]]]

\* _put_dataframe(placeholder, dataframe): whether it raised, the table in the
\* placeholder, and the DataFrame (whose unnamed index levels it renames).
_put_dataframe(cmap, df) ==
    LET inserted == insert_table(Len(df.rows) + 1,
                                 Len(df.columns) + Len(df.index_names))
        sized == SetWidths(inserted, WidthAssignments)
        named == [df EXCEPT !.index_names = BlankNames(df.index_names)]
    IN  IF sized.raised
        THEN [raised |-> TRUE, table |-> sized.table, dataframe |-> df]
        ELSE [raised |-> FALSE,
              table |-> SetFontSizes(WriteRows(sized.table, named, cmap, 1, 0)),
              dataframe |-> named]

----------------------------------------------------------------------------
(* The DataFrames and colour maps the table routine is exercised on. *)

NoTable == insert_table(0, 0)
NoDataFrame == [index_names |-> <<>>, columns |-> <<>>, rows |-> <<>>]

\* Two values of string2colormap: the default {} and one with three keys, among
\* them a two-line text and the empty text.
ColorMaps ==
    { [key \in {} |-> "RED"],
      [key \in { <<"BAD">>, <<"BAD", "WORSE">>, <<"">> } |->
          IF key = <<"BAD">> THEN "RED"
          ELSE IF key = <<"">> THEN "GREY" ELSE "DARKRED"] }

\* Values placed at one cell of an otherwise plain DataFrame.
SpecialValues ==
    { StrVal(<<"BAD">>), StrVal(<<"BAD", "WORSE">>), StrVal(<<"">>), StrVal(<<"FINE">>) }

\* The plain DataFrame of r rows, c columns and the given index names: level l of
\* row i holds the text "r<i>l<l>", column j of row i the integer 10 * i + j.
PlainFrame(r, c, names) ==
    [index_names |-> names,
     columns |-> [j \in 1..c |-> "col" \o ToString(j)],
     rows |-> [i \in 1..r |->
        [index |-> [l \in 1..Len(names) |->
                        StrVal(<<"r" \o ToString(i) \o "l" \o ToString(l)>>)],
         values |-> [j \in 1..c |-> IntVal(10 * i + j)]]]]

\* df with the value at row i, position pos (index levels first, then columns)
\* replaced by v.
WithValue(df, i, pos, v) ==
    LET k == Len(df.index_names)
    IN  IF pos <= k THEN [df EXCEPT !.rows[i].index[pos] = v]
        ELSE [df EXCEPT !.rows[i].values[pos - k] = v]

IndexNameLists(k) ==
    { [l \in 1..k |-> IF l \in named THEN <<"lvl" \o ToString(l)>> ELSE <<>>] :
        named \in SUBSET (1..k) }

DataFrames ==
    LET plain == UNION { UNION { { PlainFrame(r, c, names) :
                                     names \in IndexNameLists(k) } :
                                 k \in 1..MaxLevels } :
                         <<r, c>> \in (0..MaxRows) \X (1..MaxCols) }
    IN  plain \cup
        UNION { { WithValue(df, i, pos, v) :
                    <<i, pos, v>> \in (1..Len(df.rows))
                                      \X (1..(Len(df.index_names) + Len(df.columns)))
                                      \X SpecialValues } : df \in plain }

----------------------------------------------------------------------------
(* _put_dataframe on its own: SpecTable. *)

NoLast == [entry |-> 0, key |-> "", cls |-> "", method |-> "", found |-> FALSE]
NoExc == [type |-> "", msg |-> <<>>]

InitTable ==
    /\ pc = "idle" /\ slides = <<>> /\ entries = <<>> /\ used = <<>>
    /\ last = NoLast /\ exc = NoExc
    /\ string2colormap \in ColorMaps
    /\ dataframe \in DataFrames
    /\ table = NoTable
    /\ tpc = "ready"

PutDataframe ==
    /\ tpc = "ready"
    /\ LET res == _put_dataframe(string2colormap, dataframe)
       IN  /\ table' = res.table
           /\ dataframe' = res.dataframe
           /\ tpc' = IF res.raised THEN "raised" ELSE "returned"
    /\ UNCHANGED <<pc, slides, entries, used, last, exc, string2colormap>>

NextTable == PutDataframe

SpecTable == InitTable /\ [][NextTable]_vars

----------------------------------------------------------------------------
(* The template, and the values Execute is exercised on. *)

\* The slide layouts of the template: one with a title and a content placeholder,
\* one without placeholders.
Template ==
    << [name |-> "Title and Content",
        placeholders |-> << [name |-> "Title 1", title |-> TRUE],
                            [name |-> "Content 2", title |-> FALSE] >>],
       [name |-> "Blank", placeholders |-> <<>>] >>

LayoutChoices == {"Title and Content", "Blank", "Missing"}
KeyChoices == {"Title 1", "Content 2", "Footer"}
\* 'title' in sl: <<>> when the entry has no title, <<text>> when it has.
TitleChoices == { <<>>, << <<"Results">> >> }

Value(cls, text, df) == [cls |-> cls, text |-> text, df |-> df]

\* One value per class; a DataFrame of two table columns and one of four.
ValueChoices ==
    { Value("str", <<"hello">>, NoDataFrame),
      Value("Figure", <<>>, NoDataFrame),
      Value("pptx_image", <<>>, NoDataFrame),
      Value("bytes", <<>>, NoDataFrame),
      Value("DataFrame", <<>>, PlainFrame(1, 1, << <<>> >>)),
      Value("DataFrame", <<>>, PlainFrame(1, 3, << <<>> >>)),
      Value("int", <<>>, NoDataFrame),
      Value("NoneType", <<>>, NoDataFrame) }

----------------------------------------------------------------------------
(* Exception messages. *)

\* sep.join(names)
RECURSIVE Join(_, _)
Join(sep, names) ==
    IF Len(names) = 0 THEN <<>>
    ELSE IF Len(names) = 1 THEN <<names[1]>>
    ELSE <<names[1], sep>> \o Join(sep, Tail(names))

\* template.format(*args): the n-th "{}" of the template becomes the n-th argument;
\* arguments left over are dropped.
RECURSIVE Format(_, _)
Format(tmpl, args) ==
    IF Len(tmpl) = 0 THEN <<>>
    ELSE IF tmpl[1] = "{}"
         THEN args[1] \o Format(Tail(tmpl), Tail(args))
         ELSE <<tmpl[1]>> \o Format(Tail(tmpl), args)

\* 'Slide layout: {} does not exist in this template.' +
\* ' the available layouts are: {}'.format(layout, ' -, - '.join(names))
LayoutMessage(layout, names) ==
    <<"Slide layout: ", "{}", " does not exist in this template.">>
    \o Format(<<" the available layouts are: ", "{}">>,
              << <<layout>>, Join(" -, - ", names) >>)

\* 'Placeholder {}, is unknown in this slide-type. ' +
\* 'Available placeholders are: {}'.format(k, ', '.join(names))
PlaceholderMessage(k, names) ==
    <<"Placeholder ", "{}", ", is unknown in this slide-type. ">>
    \o Format(<<"Available placeholders are: ", "{}">>,
              << <<k>>, Join(", ", names) >>)

\* The message with format applied to its second piece only.
NoFunctionMessageSplit(ty, k) ==
    <<"There is no function to add an object of type ", "{}">>
    \o Format(<<" onto placeholder ", "{}">>, << <<ty>>, <<k>> >>)

\* 'There is no function to add an object of type {} onto placeholder {}'.format(ty, k)
NoFunctionMessage(ty, k) ==
    Format(<<"There is no function to add an object of type ", "{}",
             " onto placeholder ", "{}">>,
           << <<ty>>, <<k>> >>)

----------------------------------------------------------------------------
(* Lookups and dispatch. *)

\* The first index of seq whose element is named name, 0 (None) when there is none.
RECURSIVE FirstNamed(_, _, _)
FirstNamed(seq, name, from) ==
    IF from > Len(seq) THEN 0
    ELSE IF seq[from].name = name THEN from
    ELSE FirstNamed(seq, name, from + 1)

\* The lookup falling back to the template's first layout.
FindLayoutOrFirst(name) ==
    IF FirstNamed(Template, name, 1) = 0 THEN 1 ELSE FirstNamed(Template, name, 1)

FindLayout(name) == FirstNamed(Template, name, 1)

FindPlaceholder(slide, name) == FirstNamed(slide.placeholders, name, 1)

Names(seq) == [i \in 1..Len(seq) |-> seq[i].name]

\* The class name as it is, not lowercased.
LowerUnchanged(cls) == cls

\* type(v).__name__.lower()
Lower(cls) ==
    CASE cls = "Figure" -> "figure"
      [] cls = "DataFrame" -> "dataframe"
      [] cls = "NoneType" -> "nonetype"
      [] OTHER -> cls

\* The attributes of a Slideshow whose names start with "_put_".
PutMethods == {"_put_str", "_put_figure", "_put_pptx_image", "_put_dataframe", "_put_bytes"}

\* getattr(self, method_name) succeeds.
HasAttr(method_name) == method_name \in PutMethods

EmptyContent == [kind |-> "empty", text |-> <<>>, table |-> NoTable]
TextContent(lines) == [kind |-> "text", text |-> lines, table |-> NoTable]
PictureContent == [kind |-> "picture", text |-> <<>>, table |-> NoTable]
TableContent(t) == [kind |-> "table", text |-> <<>>, table |-> t]

\* method(pl, v): whether the routine raised, and the placeholder's content after it.
Put(method_name, cmap, v) ==
    CASE method_name = "_put_str" ->
            [raised |-> FALSE, content |-> TextContent(v.text)]
      [] method_name = "_put_dataframe" ->
            LET res == _put_dataframe(cmap, v.df)
            IN  [raised |-> res.raised, content |-> TableContent(res.table)]
      [] OTHER ->
            [raised |-> FALSE, content |-> PictureContent]

\* slds.slides.add_slide(layout): the slides with a new last slide, whose
\* placeholders are those of the layout, empty.
add_slide(slds, layout) ==
    Append(slds,
           [layout |-> Template[layout].name,
            placeholders |-> [p \in 1..Len(Template[layout].placeholders) |->
                [name |-> Template[layout].placeholders[p].name,
                 title |-> Template[layout].placeholders[p].title,
                 fills |-> 0,
                 content |-> EmptyContent]]])

\* slide.shapes.title: the index of the slide's title placeholder, 0 when none.
RECURSIVE TitleShape(_, _)
TitleShape(slide, from) ==
    IF from > Len(slide.placeholders) THEN 0
    ELSE IF slide.placeholders[from].title THEN from
    ELSE TitleShape(slide, from + 1)

\* if 'title' in sl: if title_shape: title_shape.text = sl['title']
SetTitle(slide, title) ==
    IF title = <<>> \/ TitleShape(slide, 1) = 0 THEN slide
    ELSE [slide EXCEPT !.placeholders[TitleShape(slide, 1)].content = TextContent(title[1])]

----------------------------------------------------------------------------
(* Execute(slides): Spec. The entries of the argument, and the items of each   *)
(* entry's 'placeholders', are drawn as the loops reach them.                   *)

Range(seq) == { seq[i] : i \in 1..Len(seq) }

Raise(type, msg) == [type |-> type, msg |-> msg]

Init ==
    /\ pc = "idle" /\ slides = <<>> /\ entries = <<>> /\ used = <<>>
    /\ last = NoLast /\ exc = NoExc
    /\ string2colormap \in ColorMaps
    /\ dataframe = NoDataFrame
    /\ table = NoTable
    /\ tpc = "idle"

\* Execute is called.
ExecuteCall ==
    /\ pc = "idle"
    /\ pc' = "entry"
    /\ UNCHANGED <<slides, entries, used, last, exc, string2colormap, dataframe, table, tpc>>

\* for sl in slides: the layout is looked up, the slide added, the title set.
ExecuteEntry ==
    /\ pc = "entry"
    /\ Len(entries) < MaxSlides
    /\ \E layout \in LayoutChoices, title \in TitleChoices, has_placeholders \in BOOLEAN :
        LET found == FindLayout(layout)
            added == add_slide(slides, found)
        IN  /\ entries' = Append(entries, layout)
            /\ used' = <<>>
            /\ last' = NoLast
            /\ IF found # 0
               THEN /\ slides' = [added EXCEPT ![Len(added)] = SetTitle(@, title)]
                    /\ pc' = IF has_placeholders THEN "keys" ELSE "entry"
                    /\ exc' = exc
               ELSE /\ slides' = slides
                    /\ pc' = "raised"
                    /\ exc' = Raise("Exception", LayoutMessage(layout, Names(Template)))
    /\ UNCHANGED <<string2colormap, dataframe, table, tpc>>

\* for k in sl['placeholders']: the placeholder is looked up and the value dispatched.
ExecuteKey ==
    /\ pc = "keys"
    /\ Len(used) < MaxKeys
    /\ \E k \in KeyChoices \ Range(used), v \in ValueChoices :
        LET s == Len(slides)
            pl == FindPlaceholder(slides[s], k)
            ty == Lower(v.cls)
            method_name == "_put_" \o ty
            res == Put(method_name, string2colormap, v)
        IN  /\ used' = Append(used, k)
            /\ IF pl = 0
               THEN /\ last' = [entry |-> s, key |-> k, cls |-> v.cls,
                                method |-> "", found |-> FALSE]
                    /\ slides' = slides
                    /\ pc' = "raised"
                    /\ exc' = Raise("Exception",
                                    PlaceholderMessage(k, Names(slides[s].placeholders)))
               ELSE IF ~HasAttr(method_name)
               THEN /\ last' = [entry |-> s, key |-> k, cls |-> v.cls,
                                method |-> "", found |-> TRUE]
                    /\ slides' = slides
                    /\ pc' = "raised"
                    /\ exc' = Raise("Exception", NoFunctionMessage(ty, k))
               ELSE /\ last' = [entry |-> s, key |-> k, cls |-> v.cls,
                                method |-> method_name, found |-> TRUE]
                    /\ slides' = [slides EXCEPT ![s].placeholders[pl] =
                                    [@ EXCEPT !.content = res.content,
                                              !.fills = @ + 1]]
                    /\ pc' = IF res.raised THEN "raised" ELSE "keys"
                    /\ exc' = IF res.raised THEN Raise("IndexError", <<>>) ELSE exc
    /\ UNCHANGED <<entries, string2colormap, dataframe, table, tpc>>

\* The 'placeholders' of the entry are exhausted: on to the next entry.
ExecuteKeysEnd ==
    /\ pc = "keys"
    /\ pc' = "entry"
    /\ used' = <<>>
    /\ last' = NoLast
    /\ UNCHANGED <<slides, entries, exc, string2colormap, dataframe, table, tpc>>

\* The entries are exhausted: Execute returns.
ExecuteReturn ==
    /\ pc = "entry"
    /\ pc' = "done"
    /\ UNCHANGED <<slides, entries, used, last, exc, string2colormap, dataframe, table, tpc>>

Next ==
    \/ ExecuteCall
    \/ ExecuteEntry
    \/ ExecuteKey
    \/ ExecuteKeysEnd
    \/ ExecuteReturn

Spec == Init /\ [][Next]_vars

----------------------------------------------------------------------------
(* What the claims are stated with. *)

Contains(msg, token) == \E i \in 1..Len(msg) : msg[i] = token

\* The routine each supported class is to go to, and what it leaves in the placeholder.
SupportedClasses == {"str", "Figure", "pptx_image", "bytes", "DataFrame"}

ExpectedRoutine(cls) ==
    CASE cls = "str" -> "_put_str"
      [] cls = "Figure" -> "_put_figure"
      [] cls = "pptx_image" -> "_put_pptx_image"
      [] cls = "bytes" -> "_put_bytes"
      [] cls = "DataFrame" -> "_put_dataframe"

ExpectedKind(cls) ==
    CASE cls = "str" -> "text"
      [] cls = "DataFrame" -> "table"
      [] OTHER -> "picture"

ExpectedTypeName(cls) ==
    CASE cls = "int" -> "int"
      [] cls = "NoneType" -> "nonetype"

\* The placeholder the latest step of the inner loop was about.
LastPlaceholder ==
    LET slide == slides[last.entry]
    IN  slide.placeholders[CHOOSE p \in 1..Len(slide.placeholders) :
                                /\ slide.placeholders[p].name = last.key
                                /\ \A q \in 1..(p - 1) : slide.placeholders[q].name # last.key]

TemplateLayoutNames == { Template[l].name : l \in 1..Len(Template) }

\* The call ended at the layout lookup of the latest entry.
RaisedAtLayout ==
    /\ pc = "raised"
    /\ last = NoLast
    /\ entries # <<>>
    /\ entries[Len(entries)] \notin TemplateLayoutNames

\* The call ended at a key that names no placeholder of the new slide.
RaisedAtPlaceholder == pc = "raised" /\ last # NoLast /\ ~last.found

\* The call ended at a value of a class without a fill routine.
RaisedAtType ==
    pc = "raised" /\ last # NoLast /\ last.found /\ last.cls \notin SupportedClasses

----------------------------------------------------------------------------
(* The claims about Execute, under Spec. *)

\* C1: a value whose placeholder exists and whose class is supported has been handed,
\* exactly once, to the routine "_put_" + lowercased class name: str to the text
\* routine, Figure, pptx_image and bytes to their picture routines, DataFrame to the
\* table routine, and to no other routine.
C1_DispatchOnType ==
    (last # NoLast /\ last.found /\ last.cls \in SupportedClasses) =>
        /\ last.method = ExpectedRoutine(last.cls)
        /\ LastPlaceholder.fills = 1
        /\ LastPlaceholder.content.kind = ExpectedKind(last.cls)

C1_Witness ==
    /\ pc = "keys"
    /\ last.cls = "DataFrame"
    /\ last.method = "_put_dataframe"
    /\ LastPlaceholder.content.kind = "table"

\* C2: when the entry's layout names no layout of the template, the exception's
\* message contains the requested name and the names of all layouts of the template,
\* and no slide is added for the entry.
C2_UnknownLayoutMessage ==
    RaisedAtLayout =>
        /\ exc.type = "Exception"
        /\ Contains(exc.msg, entries[Len(entries)])
        /\ \A name \in TemplateLayoutNames : Contains(exc.msg, name)
        /\ Len(slides) = Len(entries) - 1

\* C3: when a key names no placeholder of the new slide, the exception's message
\* contains the key and the names of all placeholders of the slide, and no fill
\* routine is invoked for the key.
C3_UnknownPlaceholderMessage ==
    RaisedAtPlaceholder =>
        /\ exc.type = "Exception"
        /\ Contains(exc.msg, last.key)
        /\ \A p \in 1..Len(slides[last.entry].placeholders) :
              Contains(exc.msg, slides[last.entry].placeholders[p].name)
        /\ last.method = ""

\* C4: when the placeholder exists and the value's class has no fill routine, the
\* exception's message names the lowercased class name and the placeholder name, and
\* the placeholder is left unfilled.
C4_UnsupportedType ==
    RaisedAtType =>
        /\ exc.type = "Exception"
        /\ Contains(exc.msg, ExpectedTypeName(last.cls))
        /\ Contains(exc.msg, last.key)
        /\ ~Contains(exc.msg, "{}")
        /\ last.method = ""
        /\ LastPlaceholder.fills = 0
        /\ LastPlaceholder.content.kind \in {"empty", "text"}
        /\ LastPlaceholder.content.kind = "text" => LastPlaceholder.title

C4_Witness ==
    /\ RaisedAtType
    /\ last.cls = "NoneType"
    /\ last.key = "Content 2"
    /\ LastPlaceholder.content = EmptyContent

\* C8, in every state: the slides are those of a prefix of the entries taken, in
\* order and with the layouts the entries name; all of them while the call runs and
\* when it returns, all but the latest when it raised at the layout lookup, and all
\* of them, with the keys before the failing one filled, when it raised at an unknown
\* placeholder or an unsupported class.
C8_PrefixState ==
    /\ Len(slides) <= Len(entries)
    /\ \A s \in 1..Len(slides) : slides[s].layout = entries[s]
    /\ pc \in {"idle", "entry", "keys", "done"} => Len(slides) = Len(entries)
    /\ RaisedAtLayout => Len(slides) = Len(entries) - 1
    /\ (RaisedAtPlaceholder \/ RaisedAtType) =>
          /\ Len(slides) = Len(entries)
          /\ last.entry = Len(entries)
          /\ used[Len(used)] = last.key
          /\ \A u \in 1..(Len(used) - 1) :
                \E p \in 1..Len(slides[last.entry].placeholders) :
                    /\ slides[last.entry].placeholders[p].name = used[u]
                    /\ slides[last.entry].placeholders[p].fills = 1
                    /\ slides[last.entry].placeholders[p].content.kind # "empty"

\* C8, in every step: at most one slide is appended, at the end, and the slides of
\* earlier entries are not changed.
C8_PrefixStep ==
    /\ Len(slides') \in {Len(slides), Len(slides) + 1}
    /\ \A s \in 1..Len(slides) : s < Len(entries') => slides'[s] = slides[s]
    /\ \A s \in 1..Len(slides) : slides'[s].layout = slides[s].layout

\* C8: Execute appends slides in input order, one per entry, and is not atomic.
C8_SlidesArePrefix == [](C8_PrefixState) /\ [][C8_PrefixStep]_vars

C8_Witness ==
    /\ RaisedAtPlaceholder
    /\ Len(entries) = 2
    /\ Len(slides) = 2
    /\ Len(used) = 2
    /\ slides[1].layout = "Blank"

----------------------------------------------------------------------------
(* The claims about _put_dataframe, under SpecTable. *)

\* The text of a cell, as its lines: the text of each paragraph's runs.
RECURSIVE RunsText(_)
RunsText(runs) == IF Len(runs) = 0 THEN "" ELSE runs[1].text \o RunsText(Tail(runs))

CellLines(cell) == [p \in 1..Len(cell.paragraphs) |-> RunsText(cell.paragraphs[p])]

Levels == Len(dataframe.index_names)

\* The value of row i that belongs under header j (0-based): the j-th index level's
\* value for j < k, the value of column j - k otherwise.
ValueUnderHeader(i, j) ==
    IF j < Levels THEN dataframe.rows[i].index[j + 1]
    ELSE dataframe.rows[i].values[j - Levels + 1]

\* Row 0 holds the index names (a blank for an unnamed level), then the column names.
HeaderWritten ==
    /\ \A j \in 0..(Levels - 1) :
          /\ table.cells[0][j].written
          /\ dataframe.index_names[j + 1] # <<>>
          /\ CellLines(table.cells[0][j]) = dataframe.index_names[j + 1]
    /\ \A j \in 0..(Len(dataframe.columns) - 1) :
          /\ table.cells[0][Levels + j].written
          /\ CellLines(table.cells[0][Levels + j]) = <<dataframe.columns[j + 1]>>

\* C5: for r >= 0 rows, c >= 1 columns and k >= 1 index levels _put_dataframe
\* completes without raising and inserts a table of r + 1 rows and c + k columns.
C5_PutDataframeCompletes ==
    tpc # "ready" =>
        /\ tpc = "returned"
        /\ table.nrows = Len(dataframe.rows) + 1
        /\ table.ncols = Len(dataframe.columns) + Levels

\* C6: for a DataFrame with at least one row the table is aligned with its header:
\* row 0 holds the index names and the column names, and cell (i + 1, j) holds the
\* string form of the value that belongs under header j; no cell of a data row is
\* left unwritten.
C6_TableAlignedWithHeader ==
    (tpc = "returned" /\ Len(dataframe.rows) >= 1) =>
        /\ HeaderWritten
        /\ \A i \in 1..Len(dataframe.rows) : \A j \in 0..(table.ncols - 1) :
              /\ table.cells[i][j].written
              /\ CellLines(table.cells[i][j]) = Str(ValueUnderHeader(i, j))

\* The runs of a cell.
CellRuns(cell) ==
    UNION { Range(cell.paragraphs[p]) : p \in 1..Len(cell.paragraphs) }

\* C7: the runs of a data cell have the colour string2colormap[v] exactly when the
\* cell's raw value v is a key of string2colormap; the runs of the other data cells
\* and of the header cells have no colour; and once _put_dataframe has returned
\* every run of every cell has font size 12pt.
C7_ColourAndFontSize ==
    tpc = "returned" =>
        /\ \A i \in 1..Len(dataframe.rows) :
              \A j \in 0..(Len(RowTuple(dataframe, i)) - 1) :
                 LET v == RowTuple(dataframe, i)[j + 1]
                     key == v.kind = "str" /\ v.lines \in DOMAIN string2colormap
                 IN  \A run \in CellRuns(table.cells[i][j]) :
                        run.color = IF key THEN <<string2colormap[v.lines]>> ELSE Unset
        /\ \A j \in 0..(table.ncols - 1) :
              \A run \in CellRuns(table.cells[0][j]) : run.color = Unset
        /\ \A i \in 0..(table.nrows - 1) : \A j \in 0..(table.ncols - 1) :
              \A run \in CellRuns(table.cells[i][j]) : run.size = <<FontSizePt>>

\* C9: the header row does not depend on the number of data rows: for a DataFrame
\* with zero rows row 0 of the one-row table holds the index names followed by the
\* column names.
C9_HeaderWithoutRows ==
    (tpc = "returned" /\ Len(dataframe.rows) = 0) =>
        /\ table.nrows = 1
        /\ HeaderWritten

====
